---- MODULE Spec2Model ----
(***************************************************************************)
(* The scene state machine of the exploration game: App (the scene state,  *)
(* the scroll slider, the EXIT control, the lore modal) and GameEngine     *)
(* (the refs it keeps between frames, the scene generators, the per-frame  *)
(* render/simulation step, the pointer handlers).                          *)
(*                                                                         *)
(* Numbers.  The program computes in IEEE doubles.  Here every position,   *)
(* speed, alpha and life is held in fixed point, in units of 1/Scale, and  *)
(* a product that does not land on a unit is rounded to the nearest one,   *)
(* as a double operation rounds to the nearest representable value.  The   *)
(* constants the thresholds are compared with (0.04 steps against 1.2 and  *)
(* against 0) give the same tick counts in doubles as in this decimal      *)
(* arithmetic: thirty additions of 0.04 give 1.2000000000000004 >= 1.2,    *)
(* twenty-five subtractions of 0.04 from 1.0 give -3.5e-16 <= 0.           *)
(* Math.random() is a value k/Scale with 0 <= k < Scale.                   *)
(*                                                                         *)
(* React.  A state update made in a pointer handler is rendered and its    *)
(* effects are run before the handler's event ends (a discrete event).     *)
(* A state update made in an animation frame is rendered at once, and the  *)
(* effects of that render run a step later, before the next animation      *)
(* frame; pointer events may be delivered in between.                      *)
(***************************************************************************)
EXTENDS Integers, Sequences, FiniteSets, TLC

VARIABLES
    gameState,          \* App: useState<GameState>
    cityScroll,         \* App: useState(0), the slider's percentage
    showDragonLore,     \* App: useState(false)
    cameraY,            \* GameEngine refs
    particles,
    transitionAlpha,
    transitionTarget,
    entities,
    hoveredEntityRef,
    scrollTargetRef,
    requestRef,         \* the id the last requestAnimationFrame returned
    pending,            \* host: the animation frames requested and not yet run
    effectsPending,     \* React: a render is committed, its effects are not yet run
    cursor,             \* host: canvas.style.cursor
    emitted,            \* the signals the last step sent to the collaborators
    cityTicks           \* frames drawn in Exploration since the last entry

vars == <<gameState, cityScroll, showDragonLore, cameraY, particles,
          transitionAlpha, transitionTarget, entities, hoveredEntityRef,
          scrollTargetRef, requestRef, pending, effectsPending, cursor,
          emitted, cityTicks>>

-----------------------------------------------------------------------------
(* Bounds of the model.                                                    *)

\* Frames a visit of Exploration lasts at most (Spec).
MaxCityTicks == 2

-----------------------------------------------------------------------------
(* Fixed point.                                                            *)

Scale == 10 * 10 * 10

Fx(n) == n * Scale

Abs(a) == IF a < 0 THEN -a ELSE a

\* a * num / den, rounded to the nearest unit (den > 0).
Times(a, num, den) ==
    LET p == a * num
    IN  IF p >= 0 THEN (2 * p + den) \div (2 * den)
        ELSE -((2 * (-p) + den) \div (2 * den))

\* Math.floor of a fixed-point value, as an integer.
Floor(a) == a \div Scale

-----------------------------------------------------------------------------
(* types.ts and constants.                                                 *)

MAP              == "MAP"
TRANSITION       == "TRANSITION"
CITY_EXPLORATION == "CITY_EXPLORATION"
ZIGGURAT_INSIDE  == "ZIGGURAT_INSIDE"

GameState == {MAP, TRANSITION, CITY_EXPLORATION, ZIGGURAT_INSIDE}

EntityType == {"NPC", "BUILDING", "DECOR", "PLAYER", "BOAT", "ZIGGURAT",
               "STATUE", "BANNER"}

\* The canvas dimensions of ../constants (not among the source files): the
\* layout centres the landmark (x 130..190) and the particles on GAME_WIDTH/2,
\* and the frame is 4:3.
GAME_WIDTH  == 320
GAME_HEIGHT == 240

\* An entity. id stands for the template string `${name}-${a}-${b}`; an
\* optional field the generator leaves out is "NONE" (variant) or 0 (speed:
\* an unset speed and a speed of 0 are both falsy wherever the code reads it).
Id(name, a, b) == [name |-> name, a |-> a, b |-> b]

Entity(id, type, x, y, width, height, variant, speed) ==
    [id |-> id, type |-> type, x |-> x, y |-> y, width |-> width,
     height |-> height, variant |-> variant, speed |-> speed]

-----------------------------------------------------------------------------
(* initCity.  tape is the sequence of values Math.random() returns, in     *)
(* call order (40 calls).                                                  *)

wallNorthY == -200
wallSouthY == 50
wallWestX  == 60
wallEastX  == 260
riverGateY == -80

corners == << <<wallWestX, wallNorthY>>, <<wallEastX, wallNorthY>>,
              <<wallWestX, wallSouthY>>, <<wallEastX, wallSouthY>> >>

Towers ==
    [i \in 1..4 |->
        Entity(Id("tower", corners[i][1], corners[i][2]), "BUILDING",
               Fx(corners[i][1]), Fx(corners[i][2]), Fx(20), Fx(35), "TOWER", 0)]

Ziggurat ==
    Entity(Id("ziggurat", 0, 0), "ZIGGURAT",
           Fx((wallWestX + wallEastX) \div 2 - 30), Fx(wallNorthY + 40),
           Fx(60), Fx(45), "NONE", 0)

RECURSIVE VerticalWalls(_)
VerticalWalls(y) ==
    IF y > wallNorthY
    THEN << Entity(Id("wall-east", y, 0), "BUILDING", Fx(wallEastX + 2), Fx(y),
                   Fx(16), Fx(25), "WALL_V", 0) >>
         \o (IF Abs(y - riverGateY) > 20
             THEN << Entity(Id("wall-west", y, 0), "BUILDING", Fx(wallWestX + 2),
                            Fx(y), Fx(16), Fx(25), "WALL_V", 0) >>
             ELSE << >>)
         \o VerticalWalls(y - 20)
    ELSE << >>

RECURSIVE HorizontalWalls(_)
HorizontalWalls(x) ==
    IF x < wallEastX
    THEN << Entity(Id("wall-north", x, 0), "BUILDING", Fx(x), Fx(wallNorthY),
                   Fx(22), Fx(25), "WALL_H", 0) >>
         \o (IF x < 130 \/ x > 190
             THEN << Entity(Id("wall-south", x, 0), "BUILDING", Fx(x),
                            Fx(wallSouthY), Fx(22), Fx(25), "WALL_H", 0) >>
             ELSE << >>)
         \o HorizontalWalls(x + 20)
    ELSE << >>

\* A variant of Boats: the boats given a kind of their own.
BoatsMutant(tape, k) ==
    [i \in 1..3 |->
        Entity(Id("boat", i - 1, 0), "SHIP",
               Fx(10) + tape[k + 3 * (i - 1)] * 25,
               -(tape[k + 3 * (i - 1) + 1] * 200),
               Fx(12), Fx(6), "NONE",
               Times(Scale, 1, 10) + Times(tape[k + 3 * (i - 1) + 2], 2, 10))]

\* Boats: three calls of Math.random() each (x, y, speed), from call k on.
Boats(tape, k) ==
    [i \in 1..3 |->
        Entity(Id("boat", i - 1, 0), "BOAT",
               Fx(10) + tape[k + 3 * (i - 1)] * 25,
               -(tape[k + 3 * (i - 1) + 1] * 200),
               Fx(12), Fx(6), "NONE",
               Times(Scale, 1, 10) + Times(tape[k + 3 * (i - 1) + 2], 2, 10))]

\* Houses, stalls, merchants and trees, row by row; k is the next call of
\* Math.random(). The result holds the entities and the next call after them.
RECURSIVE Rows(_, _, _)
Rows(tape, y, k) ==
    IF y > wallNorthY + 80
    THEN LET house == Abs(y - riverGateY) > 25
             k1    == IF house THEN k + 1 ELSE k
             left  == IF house
                      THEN Entity(Id("house-left", y, 0), "BUILDING",
                                  Fx(wallWestX + 25), Fx(y), Fx(30), Fx(35),
                                  IF tape[k] * 100 > 85 * Scale THEN "LEADER"
                                                                 ELSE "NORMAL", 0)
                      ELSE Entity(Id("path-gate-inner", y, 0), "DECOR",
                                  Fx(wallWestX + 10), Fx(y - 15), Fx(50), Fx(10),
                                  "GATE_PATH", 0)
             market   == Entity(Id("market-right", y, 0), "DECOR",
                                Fx(wallEastX - 35), Fx(y + 15), Fx(20), Fx(15),
                                "NONE", 0)
             merchant == Entity(Id("merchant", y, 0), "NPC", Fx(wallEastX - 30),
                                Fx(y + 20), Fx(8), Fx(8), "MERCHANT", 0)
             treeR == IF tape[k1] * 10 > 3 * Scale
                      THEN << Entity(Id("tree-decor-right", y, 0), "DECOR",
                                     Fx(wallEastX - 15), Fx(y - 10), Fx(10),
                                     Fx(10), "TREE", 0) >>
                      ELSE << >>
             treeL == IF tape[k1 + 1] * 10 > 4 * Scale
                      THEN << Entity(Id("tree-decor-left", y, 0), "DECOR",
                                     Fx(wallWestX + 55), Fx(y + 25), Fx(10),
                                     Fx(10), "TREE", 0) >>
                      ELSE << >>
             rest  == Rows(tape, y - 45, k1 + 2)
         IN  [ents |-> <<left, market, merchant>> \o treeR \o treeL \o rest.ents,
              k    |-> rest.k]
    ELSE [ents |-> << >>, k |-> k]

\* Trees of the plaza: four calls per pair (left x, left y, right x, right y).
RECURSIVE PlazaTrees(_, _, _)
PlazaTrees(tape, i, k) ==
    IF i < 5
    THEN << Entity(Id("tree-zig-l", i, 0), "DECOR",
                   Fx(wallWestX + 30) + tape[k] * 30,
                   Fx(wallNorthY + 70) + tape[k + 1] * 20,
                   Fx(10), Fx(10), "TREE", 0),
            Entity(Id("tree-zig-r", i, 0), "DECOR",
                   Fx(wallEastX - 40) - tape[k + 2] * 30,
                   Fx(wallNorthY + 70) + tape[k + 3] * 20,
                   Fx(10), Fx(10), "TREE", 0) >>
         \o PlazaTrees(tape, i + 1, k + 4)
    ELSE << >>

\* A variant of Priests: the index left out of the identity.
PriestsMutant(tape, k) ==
    [i \in 1..3 |->
        Entity(Id("priest", 0, 0), "NPC",
               Fx(GAME_WIDTH \div 2 - 20 + (i - 1) * 15), Fx(wallNorthY + 80),
               Fx(8), Fx(8), "PRIEST",
               Times(tape[k + i - 1] - Scale \div 2, 15, 100))]

Priests(tape, k) ==
    [i \in 1..3 |->
        Entity(Id("priest", i - 1, 0), "NPC",
               Fx(GAME_WIDTH \div 2 - 20 + (i - 1) * 15), Fx(wallNorthY + 80),
               Fx(8), Fx(8), "PRIEST",
               Times(tape[k + i - 1] - Scale \div 2, 15, 100))]

\* Calls of Math.random() in one initCity.
TapeLen == 40

\* A variant of initCity: the landmark placed by a call of Math.random().
initCityMutant(tape) ==
    LET rows == Rows(tape, wallSouthY - 40, 10)
    IN  Towers \o <<[Ziggurat EXCEPT !.x = @ + tape[1] * 10]>>
        \o VerticalWalls(wallSouthY - 20)
        \o HorizontalWalls(wallWestX + 20) \o Boats(tape, 1) \o rows.ents
        \o PlazaTrees(tape, 0, rows.k) \o Priests(tape, rows.k + 20)

initCity(tape) ==
    LET rows == Rows(tape, wallSouthY - 40, 10)
    IN  Towers \o <<Ziggurat>> \o VerticalWalls(wallSouthY - 20)
        \o HorizontalWalls(wallWestX + 20) \o Boats(tape, 1) \o rows.ents
        \o PlazaTrees(tape, 0, rows.k) \o Priests(tape, rows.k + 20)

initZigguratInterior ==
    LET cx == GAME_WIDTH \div 2
        cy == GAME_HEIGHT \div 2
    IN  << Entity(Id("dragon-statue", 0, 0), "STATUE", Fx(cx - 24), Fx(cy - 20),
                  Fx(48), Fx(48), "NONE", 0),
           Entity(Id("banner-left", 0, 0), "BANNER", Fx(cx - 70), Fx(cy - 60),
                  Fx(24), Fx(36), "DRAGON_FLAG", 0),
           Entity(Id("banner-right", 0, 0), "BANNER", Fx(cx + 46), Fx(cy - 60),
                  Fx(24), Fx(36), "DRAGON_FLAG", 0),
           Entity(Id("priest-inside", 1, 0), "NPC", Fx(cx - 40), Fx(cy + 40),
                  Fx(8), Fx(8), "PRIEST", 0),
           Entity(Id("priest-inside", 2, 0), "NPC", Fx(cx + 32), Fx(cy + 40),
                  Fx(8), Fx(8), "PRIEST", 0) >>

-----------------------------------------------------------------------------
(* drawCity: camera easing, the entity pass, the particle spawn.           *)

\* A variant of TargetY: the camera's travel taken as 200.
TargetYMutant(scroll) == Times(Times(Fx(scroll), 1, 100), -200, 1)

\* (scrollTargetRef.current / 100) * -220
TargetY(scroll) == Times(Times(Fx(scroll), 1, 100), -220, 1)

\* A variant of Ease: the factor taken as 1.1.
EaseMutant(cam, scroll) ==
    cam + Times(Times(Times(Fx(scroll), 1, 100), -220, 1) - cam, 11, 10)

\* cameraY.current += (targetY - cameraY.current) * 0.1
Ease(cam, scroll) == cam + Times(TargetY(scroll) - cam, 1, 10)

\* entities.current.sort((a, b) => a.y - b.y): ascending in y and stable.
\* SortSeq sorts by insertion, moving an element before the ones that stand
\* before it only while the comparison holds, so entities of equal y keep
\* their order.
\* A variant of SortByY: the comparison turned round.
SortByYMutant(s) == SortSeq(s, LAMBDA a, b : a.y > b.y)

SortByY(s) == SortSeq(s, LAMBDA a, b : a.y < b.y)

ScreenY(e, camY) == Floor(e.y - Fx(camY) + Fx(GAME_HEIGHT) \div 2)

Culled(e, camY) ==
    ScreenY(e, camY) < -100 \/ ScreenY(e, camY) > GAME_HEIGHT + 100

\* A variant of AnimateNPC: the move made eastwards whatever the sign of the
\* speed.
AnimateNPCOneWay(e) ==
    LET x1 == e.x + Abs(e.speed)
    IN  [e EXCEPT !.x = x1,
                  !.speed = IF x1 > Fx(245) \/ x1 < Fx(75) THEN -e.speed
                                                            ELSE e.speed]

\* A variant of AnimateNPC: the bounds tested on x before the move.
AnimateNPCMutant(e) ==
    [e EXCEPT !.x = e.x + e.speed,
              !.speed = IF e.x > Fx(245) \/ e.x < Fx(75) THEN -e.speed
                                                          ELSE e.speed]

AnimateNPC(e) ==
    LET x1 == e.x + e.speed
    IN  [e EXCEPT !.x = x1,
                  !.speed = IF x1 > Fx(245) \/ x1 < Fx(75) THEN -e.speed
                                                            ELSE e.speed]

AnimateBoat(e, camY) ==
    LET y1 == e.y + (IF e.speed # 0 THEN e.speed ELSE Times(Scale, 1, 10))
    IN  [e EXCEPT !.y = IF y1 - Fx(camY) > Fx(GAME_HEIGHT) \div 2 + Fx(200)
                         THEN y1 - Fx(300) ELSE y1]

\* The body of entities.current.forEach for one entity.
StepEntity(e, camY) ==
    IF Culled(e, camY) THEN e
    ELSE LET e1 == IF e.type = "NPC" /\ e.speed # 0 THEN AnimateNPC(e) ELSE e
         IN  IF e1.type = "BOAT" THEN AnimateBoat(e1, camY) ELSE e1

\* One roll of the particle spawn: the six values Math.random() returns, in
\* call order.
Draw(roll, rx, ry, rc, rvx, rvy) ==
    [roll |-> roll, rx |-> rx, ry |-> ry, rc |-> rc, rvx |-> rvx, rvy |-> rvy]

SpawnParticle(parts, cam, camY, draw) ==
    IF cam < Fx(-100) /\ draw.roll * 100 > 85 * Scale
    THEN Append(parts,
                [x     |-> Fx(GAME_WIDTH) \div 2 - Fx(30) + draw.rx * 60,
                 y     |-> Fx(-180) - Fx(camY) + Fx(GAME_HEIGHT) \div 2 - Fx(40)
                           + draw.ry * 30,
                 life  |-> Scale,
                 color |-> IF draw.rc * 10 > 5 * Scale THEN "GOLD" ELSE "WHITE",
                 vx    |-> Times(draw.rvx - Scale \div 2, 5, 10),
                 vy    |-> -draw.rvy])
    ELSE parts

\* The body of entities.current.forEach, run on every entity of the sorted
\* array.
StepAll(sorted, camY) ==
    SubSeq([i \in 1..Len(sorted) |-> StepEntity(sorted[i], camY)],
           1, Len(sorted))

\* A variant of drawCityEntities: the entities off screen are dropped from
\* the array instead of skipped.
drawCityEntitiesMutant(ents, cam1) ==
    LET camY == Floor(cam1)
    IN  CHOOSE drawn \in {StepAll(SelectSeq(sorted, LAMBDA e : ~Culled(e, camY)),
                                  camY) : sorted \in {SortByY(ents)}} : TRUE

\* What drawCity leaves of the camera, of the entities (cam1 being the camera
\* it has just eased) and of the particles. The sorted array is bound once,
\* as the one element of a set.
drawCityCamera(cam, scroll) == Ease(cam, scroll)

drawCityEntities(ents, cam1) ==
    LET camY == Floor(cam1)
    IN  CHOOSE drawn \in {StepAll(sorted, camY) : sorted \in {SortByY(ents)}} :
            TRUE

drawCityParticles(parts, cam1, draw) ==
    SpawnParticle(parts, cam1, Floor(cam1), draw)

\* drawParticles: forEach over the array while the callback splices it. The
\* callback at index k (from 1) ages the particle there and removes it when
\* its life is used up; the particles behind move up by one and forEach goes
\* on at k + 1.
\* A variant of AgeParticle: the decrement of life added.
AgeParticleMutant(p) ==
    [p EXCEPT !.x = p.x + p.vx, !.y = p.y + p.vy,
              !.life = p.life + Times(Scale, 4, 100)]

AgeParticle(p) ==
    [p EXCEPT !.x = p.x + p.vx, !.y = p.y + p.vy,
              !.life = p.life - Times(Scale, 4, 100)]

RemoveAt(s, k) == SubSeq(s, 1, k - 1) \o SubSeq(s, k + 1, Len(s))

RECURSIVE ForEachParticle(_, _)
ForEachParticle(parts, k) ==
    IF k > Len(parts) THEN parts
    ELSE LET p1 == AgeParticle(parts[k])
         IN  IF p1.life <= 0
             THEN ForEachParticle(RemoveAt(parts, k), k + 1)
             ELSE ForEachParticle([parts EXCEPT ![k] = p1], k + 1)

drawParticles(parts) == ForEachParticle(parts, 1)

-----------------------------------------------------------------------------
(* Hit tests.  The pointer position is in logical units (fixed point).     *)

\* entities.current.find(e => e.id === name): the first index, or 0.
Find(ents, name) ==
    LET hits == {i \in 1..Len(ents) : ents[i].id = Id(name, 0, 0)}
    IN  IF hits = {} THEN 0 ELSE CHOOSE i \in hits : \A j \in hits : i <= j

\* A variant of InMapHotspot: the left edge taken as part of the hotspot.
InMapHotspotMutant(mx, my) ==
    mx >= Fx(120) /\ mx < Fx(200) /\ my > Fx(70) /\ my < Fx(120)

InMapHotspot(mx, my) ==
    mx > Fx(120) /\ mx < Fx(200) /\ my > Fx(70) /\ my < Fx(120)

isMouseOverZiggurat(ents, cam, mx, my) ==
    LET i == Find(ents, "ziggurat")
    IN  IF i = 0 THEN FALSE
        ELSE LET ziggurat  == ents[i]
                 screenY   == ScreenY(ziggurat, Floor(cam))
                 boxX      == ziggurat.x - Fx(20)
                 boxW      == Fx(100)
                 boxTop    == Fx(screenY) - ziggurat.height - Fx(40)
                 boxBottom == Fx(screenY)
             IN  mx >= boxX /\ mx <= boxX + boxW /\ my >= boxTop /\ my <= boxBottom

\* A variant of nearZiggurat: the middle of the slider taken as past it.
nearZigguratMutant(scroll) == scroll >= 50

\* if (scrollTargetRef.current > 50): the landmark answers the pointer only
\* while the slider is past the middle.
nearZiggurat(scroll) == scroll > 50

\* A variant of isMouseOverStatue: a statue that is not found taken as hit.
isMouseOverStatueUnguarded(ents, mx, my) ==
    LET i == Find(ents, "dragon-statue")
    IN  IF i = 0 THEN TRUE
        ELSE LET statue == ents[i]
             IN  /\ mx >= statue.x /\ mx <= statue.x + statue.width
                 /\ my >= statue.y /\ my <= statue.y + statue.height

\* A variant of isMouseOverStatue: the left and upper edges left out.
isMouseOverStatueMutant(ents, mx, my) ==
    LET i == Find(ents, "dragon-statue")
    IN  IF i = 0 THEN FALSE
        ELSE LET statue == ents[i]
             IN  /\ mx > statue.x /\ mx <= statue.x + statue.width
                 /\ my > statue.y /\ my <= statue.y + statue.height

isMouseOverStatue(ents, mx, my) ==
    LET i == Find(ents, "dragon-statue")
    IN  IF i = 0 THEN FALSE
        ELSE LET statue == ents[i]
             IN  /\ mx >= statue.x /\ mx <= statue.x + statue.width
                 /\ my >= statue.y /\ my <= statue.y + statue.height

-----------------------------------------------------------------------------
(* The host's animation frames.                                            *)

Frame(id, closure) == [id |-> id, closure |-> closure]

\* The id of the next frame requested: ids of frames that are gone are used
\* again, which no code can tell from a fresh id, requestRef being overwritten
\* by every request.
NewId(frames) ==
    CHOOSE n \in 1..(Cardinality(frames) + 1) :
        /\ \A f \in frames : f.id # n
        /\ \A m \in 1..(n - 1) : \E f \in frames : f.id = m

requestAnimationFrame(frames, closure) ==
    frames \cup {Frame(NewId(frames), closure)}

cancelAnimationFrame(frames, id) == {f \in frames : f.id # id}

-----------------------------------------------------------------------------
(* The effects of a render in which gameState changed to gs, the slider    *)
(* being at scroll.                                                        *)

\* useEffect(..., [gameState]) of the tick loop: the cleanup of the old loop,
\* then the request of the new one.
\* A variant of LoopEffect: no cleanup of the old loop.
LoopEffectMutant(gs) ==
    /\ pending' = requestAnimationFrame(pending, gs)
    /\ requestRef' = NewId(pending)

LoopEffect(gs) ==
    LET kept == cancelAnimationFrame(pending, requestRef)
    IN  /\ pending' = requestAnimationFrame(kept, gs)
        /\ requestRef' = NewId(kept)

\* A variant of EntryCameraY: the camera set to the start of the city.
EntryCameraYMutant(scroll) == 0

\* cameraY.current = (scrollPercent / 100) * -220
EntryCameraY(scroll) == Times(Times(Fx(scroll), 1, 100), -220, 1)

\* A variant of InitEffect: the generators add to the array they find.
InitEffectMutant(gs, scroll, tape) ==
    IF gs = CITY_EXPLORATION
    THEN /\ entities' = entities \o initCity(tape)
         /\ cameraY' = Times(Times(Fx(scroll), 1, 100), -220, 1)
         /\ cityTicks' = 0
    ELSE IF gs = ZIGGURAT_INSIDE
         THEN /\ entities' = entities \o initZigguratInterior
              /\ cameraY' = 0
              /\ UNCHANGED cityTicks
         ELSE UNCHANGED <<entities, cameraY, cityTicks>>

\* useEffect(..., [gameState]) "Initialize City Data".
InitEffect(gs, scroll, tape) ==
    IF gs = CITY_EXPLORATION
    THEN /\ entities' = initCity(tape)
         /\ cameraY' = EntryCameraY(scroll)
         /\ cityTicks' = 0
    ELSE IF gs = ZIGGURAT_INSIDE
         THEN /\ entities' = initZigguratInterior
              /\ cameraY' = 0
              /\ UNCHANGED cityTicks
         ELSE UNCHANGED <<entities, cameraY, cityTicks>>

\* App's effect on gameState (handleZigguratEnter, or closing the lore), and
\* GameEngine's effect on scrollPercent once App has rendered again.
AppEffect(gs, scroll) ==
    /\ cityScroll' = IF gs = ZIGGURAT_INSIDE THEN 0 ELSE scroll
    /\ showDragonLore' = FALSE
    /\ scrollTargetRef' = cityScroll'

SceneEffects(gs, scroll, tape) ==
    /\ InitEffect(gs, scroll, tape)
    /\ LoopEffect(gs)
    /\ AppEffect(gs, scroll)
    /\ effectsPending' = FALSE

-----------------------------------------------------------------------------
(* The inputs of the model.                                                *)

\* Pointer positions, in logical units.
Points == {<<160, 110>>, <<160, 2>>, <<120, 110>>, <<136, 100>>, <<10, 230>>}

\* Positions of the slider.
ScrollValues == {50, 100}

\* Tapes of Math.random() for initCity.
ConstTape(v) == [k \in 1..TapeLen |-> v]
RampTape     == [k \in 1..TapeLen |-> (k * 260) % Scale]
Tapes        == {ConstTape(Scale \div 2), RampTape}
NoTape       == ConstTape(0)

\* Rolls of the particle spawn that spawn nothing (roll <= 0.85).
QuietDraws == {Draw(0, 0, 0, 0, 0, 0)}

-----------------------------------------------------------------------------
(* Init: App and GameEngine are mounted; the mount effects have run.       *)

Init ==
    /\ gameState = MAP
    /\ cityScroll = 0
    /\ showDragonLore = FALSE
    /\ cameraY = 0
    /\ particles = << >>
    /\ transitionAlpha = 0
    /\ transitionTarget = CITY_EXPLORATION
    /\ entities = << >>
    /\ hoveredEntityRef = "null"
    /\ scrollTargetRef = 0
    /\ requestRef = 1
    /\ pending = {Frame(1, MAP)}
    /\ effectsPending = FALSE
    /\ cursor = "default"
    /\ emitted = << >>
    /\ cityTicks = 0

-----------------------------------------------------------------------------
(* render: one animation frame of the loop whose closure holds c.closure.  *)

\* A variant of drawsCity: the city drawn whatever the scene.
drawsCityAlways(closure, target) == TRUE

\* A variant of drawsCity: the backdrop of a transition taken from the scene
\* it leads to.
drawsCityMutant(closure, target) ==
    \/ closure = CITY_EXPLORATION
    \/ closure = TRANSITION /\ target = CITY_EXPLORATION

\* The draw routine render calls for the scene, under the overlay if any.
Backdrop(closure, target) ==
    IF closure = MAP THEN "drawMap"
    ELSE IF closure = TRANSITION
    THEN (IF target = CITY_EXPLORATION THEN "drawMap"
          ELSE IF target = ZIGGURAT_INSIDE THEN "drawCity" ELSE "none")
    ELSE IF closure = CITY_EXPLORATION THEN "drawCity"
    ELSE IF closure = ZIGGURAT_INSIDE THEN "drawZigguratInterior"
    ELSE "none"

drawsCity(closure, target) ==
    \/ closure = CITY_EXPLORATION
    \/ closure = TRANSITION /\ target = ZIGGURAT_INSIDE

\* A variant of AlphaStep: the step taken as 0.05.
AlphaStepMutant(alpha) == alpha + Times(Scale, 5, 100)

AlphaStep(alpha) == alpha + Times(Scale, 4, 100)

\* A variant of CommitsAt: the threshold taken as 1.3.
CommitsAtMutant(alpha) == alpha >= Times(Scale, 13, 10)

CommitsAt(alpha) == alpha >= Times(Scale, 12, 10)

\* A variant of callsOnExplore: onExplore called at every commit.
callsOnExploreMutant(commit, target) == commit

\* if (transitionTarget.current === GameState.CITY_EXPLORATION) onExplore()
callsOnExplore(commit, target) == commit /\ target = CITY_EXPLORATION

render(c, draw, limit) ==
    /\ ~effectsPending
    /\ c \in pending
    /\ c.closure = CITY_EXPLORATION => cityTicks < limit
    /\ LET inCity == drawsCity(c.closure, transitionTarget)
           cam1   == drawCityCamera(cameraY, scrollTargetRef)
           alpha1 == AlphaStep(transitionAlpha)
           commit == c.closure = TRANSITION /\ CommitsAt(alpha1)
           left   == pending \ {c}
       IN  /\ cityTicks' = IF c.closure = CITY_EXPLORATION THEN cityTicks + 1
                                                            ELSE cityTicks
           /\ transitionAlpha' = IF c.closure # TRANSITION THEN transitionAlpha
                                 ELSE IF commit THEN 0 ELSE alpha1
           /\ gameState' = IF commit THEN transitionTarget ELSE gameState
           /\ effectsPending' = commit
           /\ cameraY' = IF inCity THEN cam1 ELSE cameraY
           /\ entities' = IF inCity THEN drawCityEntities(entities, cam1)
                                    ELSE entities
           /\ particles' = IF c.closure = CITY_EXPLORATION
                           THEN drawParticles(drawCityParticles(particles, cam1, draw))
                           ELSE IF inCity
                                THEN drawCityParticles(particles, cam1, draw)
                                ELSE particles
           \* onExplore = handleCityStart: setCityScroll(0), startAmbient()
           /\ cityScroll' = IF callsOnExplore(commit, transitionTarget)
                            THEN 0 ELSE cityScroll
           /\ emitted' = IF callsOnExplore(commit, transitionTarget)
                         THEN <<"onExplore", "startAmbient">> ELSE << >>
           /\ pending' = requestAnimationFrame(left, c.closure)
           /\ requestRef' = NewId(left)
    /\ UNCHANGED <<showDragonLore, transitionTarget, hoveredEntityRef,
                   scrollTargetRef, cursor>>

\* The effects of the render a frame's setGameState caused.
RunEffects ==
    /\ effectsPending
    /\ \E tape \in Tapes : SceneEffects(gameState, cityScroll, tape)
    /\ emitted' = << >>
    /\ UNCHANGED <<gameState, particles, transitionAlpha, transitionTarget,
                   hoveredEntityRef, cursor>>

-----------------------------------------------------------------------------
(* Pointer handlers of the canvas. The lore modal covers the canvas while  *)
(* it is shown.                                                            *)

\* A variant of StartTransition: the click enters the target scene at once.
StartTransitionMutant(target) ==
    /\ transitionTarget' = target
    /\ gameState' = target
    /\ transitionAlpha' = 0
    /\ emitted' = <<"playSelectSound">>
    /\ SceneEffects(target, cityScroll, RampTape)

StartTransition(target) ==
    /\ transitionTarget' = target
    /\ gameState' = TRANSITION
    /\ transitionAlpha' = 0
    /\ emitted' = <<"playSelectSound">>
    /\ SceneEffects(TRANSITION, cityScroll, NoTape)

\* A variant of handleClick: the hotspot of the map answers during a
\* transition too.
handleClickMutant(mx, my) ==
    /\ ~showDragonLore
    /\ IF gameState \in {MAP, TRANSITION} /\ InMapHotspot(mx, my)
       THEN /\ StartTransition(CITY_EXPLORATION)
            /\ UNCHANGED <<particles, hoveredEntityRef, cursor>>
       ELSE IF /\ gameState = CITY_EXPLORATION
               /\ nearZiggurat(scrollTargetRef)
               /\ isMouseOverZiggurat(entities, cameraY, mx, my)
       THEN /\ StartTransition(ZIGGURAT_INSIDE)
            /\ hoveredEntityRef' = "null"
            /\ UNCHANGED <<particles, cursor>>
       ELSE IF gameState = ZIGGURAT_INSIDE /\ isMouseOverStatue(entities, mx, my)
       THEN /\ emitted' = <<"playSelectSound", "onStatueClick">>
            /\ showDragonLore' = TRUE
            /\ UNCHANGED <<gameState, cityScroll, cameraY, particles,
                           transitionAlpha, transitionTarget, entities,
                           hoveredEntityRef, scrollTargetRef, requestRef,
                           pending, effectsPending, cursor, cityTicks>>
       ELSE /\ emitted' = << >>
            /\ UNCHANGED <<gameState, cityScroll, showDragonLore, cameraY,
                           particles, transitionAlpha, transitionTarget,
                           entities, hoveredEntityRef, scrollTargetRef,
                           requestRef, pending, effectsPending, cursor,
                           cityTicks>>

handleClick(mx, my) ==
    /\ ~showDragonLore
    /\ IF gameState = MAP /\ InMapHotspot(mx, my)
       THEN /\ StartTransition(CITY_EXPLORATION)
            /\ UNCHANGED <<particles, hoveredEntityRef, cursor>>
       ELSE IF /\ gameState = CITY_EXPLORATION
               /\ nearZiggurat(scrollTargetRef)
               /\ isMouseOverZiggurat(entities, cameraY, mx, my)
       THEN /\ StartTransition(ZIGGURAT_INSIDE)
            /\ hoveredEntityRef' = "null"
            /\ UNCHANGED <<particles, cursor>>
       ELSE IF gameState = ZIGGURAT_INSIDE /\ isMouseOverStatue(entities, mx, my)
       THEN /\ emitted' = <<"playSelectSound", "onStatueClick">>
            /\ showDragonLore' = TRUE
            /\ UNCHANGED <<gameState, cityScroll, cameraY, particles,
                           transitionAlpha, transitionTarget, entities,
                           hoveredEntityRef, scrollTargetRef, requestRef,
                           pending, effectsPending, cursor, cityTicks>>
       ELSE /\ emitted' = << >>
            /\ UNCHANGED <<gameState, cityScroll, showDragonLore, cameraY,
                           particles, transitionAlpha, transitionTarget,
                           entities, hoveredEntityRef, scrollTargetRef,
                           requestRef, pending, effectsPending, cursor,
                           cityTicks>>

\* A variant of handleMouseMove: the landmark hovered wherever the slider is.
handleMouseMoveUngated(mx, my) ==
    /\ ~showDragonLore
    /\ LET overZiggurat == /\ gameState = CITY_EXPLORATION
                           /\ isMouseOverZiggurat(entities, cameraY, mx, my)
           overStatue   == /\ gameState = ZIGGURAT_INSIDE
                           /\ isMouseOverStatue(entities, mx, my)
           isHovering   == \/ gameState = MAP /\ InMapHotspot(mx, my)
                           \/ overZiggurat
                           \/ overStatue
       IN  /\ hoveredEntityRef' =
                 IF gameState = CITY_EXPLORATION
                 THEN (IF overZiggurat THEN "ziggurat" ELSE "null")
                 ELSE IF gameState = ZIGGURAT_INSIDE
                 THEN (IF overStatue THEN "dragon-statue" ELSE "null")
                 ELSE hoveredEntityRef
           /\ cursor' = IF isHovering THEN "pointer" ELSE "default"
    /\ emitted' = << >>
    /\ UNCHANGED <<gameState, cityScroll, showDragonLore, cameraY, particles,
                   transitionAlpha, transitionTarget, entities, scrollTargetRef,
                   requestRef, pending, effectsPending, cityTicks>>

\* A variant of handleMouseMove: in Exploration the hovered identity is left
\* as it is when the slider is not past the middle.
handleMouseMoveMutant(mx, my) ==
    /\ ~showDragonLore
    /\ LET overZiggurat == /\ gameState = CITY_EXPLORATION
                           /\ nearZiggurat(scrollTargetRef)
                           /\ isMouseOverZiggurat(entities, cameraY, mx, my)
           overStatue   == /\ gameState = ZIGGURAT_INSIDE
                           /\ isMouseOverStatue(entities, mx, my)
           isHovering   == \/ gameState = MAP /\ InMapHotspot(mx, my)
                           \/ overZiggurat
                           \/ overStatue
       IN  /\ hoveredEntityRef' =
                 IF gameState = CITY_EXPLORATION /\ nearZiggurat(scrollTargetRef)
                 THEN (IF overZiggurat THEN "ziggurat" ELSE "null")
                 ELSE IF gameState = ZIGGURAT_INSIDE
                 THEN (IF overStatue THEN "dragon-statue" ELSE "null")
                 ELSE hoveredEntityRef
           /\ cursor' = IF isHovering THEN "pointer" ELSE "default"
    /\ emitted' = << >>
    /\ UNCHANGED <<gameState, cityScroll, showDragonLore, cameraY, particles,
                   transitionAlpha, transitionTarget, entities, scrollTargetRef,
                   requestRef, pending, effectsPending, cityTicks>>

handleMouseMove(mx, my) ==
    /\ ~showDragonLore
    /\ LET overZiggurat == /\ gameState = CITY_EXPLORATION
                           /\ nearZiggurat(scrollTargetRef)
                           /\ isMouseOverZiggurat(entities, cameraY, mx, my)
           overStatue   == /\ gameState = ZIGGURAT_INSIDE
                           /\ isMouseOverStatue(entities, mx, my)
           isHovering   == \/ gameState = MAP /\ InMapHotspot(mx, my)
                           \/ overZiggurat
                           \/ overStatue
       IN  /\ hoveredEntityRef' =
                 IF gameState = CITY_EXPLORATION
                 THEN (IF overZiggurat THEN "ziggurat" ELSE "null")
                 ELSE IF gameState = ZIGGURAT_INSIDE
                 THEN (IF overStatue THEN "dragon-statue" ELSE "null")
                 ELSE hoveredEntityRef
           /\ cursor' = IF isHovering THEN "pointer" ELSE "default"
    /\ emitted' = << >>
    /\ UNCHANGED <<gameState, cityScroll, showDragonLore, cameraY, particles,
                   transitionAlpha, transitionTarget, entities, scrollTargetRef,
                   requestRef, pending, effectsPending, cityTicks>>

-----------------------------------------------------------------------------
(* App's controls.                                                         *)

\* The slider, shown in Exploration: setCityScroll, then GameEngine's effect
\* on scrollPercent.
SetScroll(v) ==
    /\ gameState = CITY_EXPLORATION
    /\ ~effectsPending
    /\ cityScroll' = v
    /\ scrollTargetRef' = v
    /\ emitted' = << >>
    /\ UNCHANGED <<gameState, showDragonLore, cameraY, particles,
                   transitionAlpha, transitionTarget, entities,
                   hoveredEntityRef, requestRef, pending, effectsPending,
                   cursor, cityTicks>>

\* The EXIT button, shown inside the ziggurat while the lore is closed.
ExitScroll == 95

Exit ==
    /\ gameState = ZIGGURAT_INSIDE
    /\ ~showDragonLore
    /\ ~effectsPending
    /\ gameState' = CITY_EXPLORATION
    /\ \E tape \in Tapes : SceneEffects(CITY_EXPLORATION, ExitScroll, tape)
    /\ emitted' = <<"playSelectSound">>
    /\ UNCHANGED <<particles, transitionAlpha, transitionTarget,
                   hoveredEntityRef, cursor>>

\* The lore modal's backdrop and its CLOSE button.
CloseLore ==
    /\ showDragonLore
    /\ showDragonLore' = FALSE
    /\ emitted' = << >>
    /\ UNCHANGED <<gameState, cityScroll, cameraY, particles, transitionAlpha,
                   transitionTarget, entities, hoveredEntityRef,
                   scrollTargetRef, requestRef, pending, effectsPending,
                   cursor, cityTicks>>

-----------------------------------------------------------------------------
(* The program.                                                            *)

Tick == \E c \in pending, draw \in QuietDraws : render(c, draw, MaxCityTicks)

Click == \E p \in Points : handleClick(Fx(p[1]), Fx(p[2]))

MouseMove == \E p \in Points : handleMouseMove(Fx(p[1]), Fx(p[2]))

Scroll == \E v \in ScrollValues : SetScroll(v)

Next ==
    \/ Tick
    \/ RunEffects
    \/ Click
    \/ MouseMove
    \/ Scroll
    \/ Exit
    \/ CloseLore

Spec == Init /\ [][Next]_vars

\* The program with its frames and its effects scheduled fairly: the host calls
\* a requested frame, and React runs the effects of a render.
FairSpec == Init /\ [][Next]_vars /\ WF_vars(Tick) /\ WF_vars(RunEffects)

-----------------------------------------------------------------------------
(* The camera alone: the game in Exploration with the slider held, the     *)
(* camera at some offset of its range, and frames only.                    *)

MaxCameraTicks == 105

CameraStarts == {Fx(0), Fx(-110), Fx(-220)}

HeldScrolls == {0, 50, 100}

\* The state in Exploration once the effects of the entry have run, but for
\* the camera and the slider, the city being generated from tape.
CityEnteredFrom(cam, scroll, tape) ==
    /\ gameState = CITY_EXPLORATION
    /\ cityScroll = scroll
    /\ showDragonLore = FALSE
    /\ cameraY = cam
    /\ particles = << >>
    /\ transitionAlpha = 0
    /\ transitionTarget = CITY_EXPLORATION
    /\ entities = initCity(tape)
    /\ hoveredEntityRef = "null"
    /\ scrollTargetRef = scroll
    /\ requestRef = 1
    /\ pending = {Frame(1, CITY_EXPLORATION)}
    /\ effectsPending = FALSE
    /\ cursor = "default"
    /\ emitted = << >>
    /\ cityTicks = 0

CityEntered(cam, scroll) == CityEnteredFrom(cam, scroll, RampTape)

CameraInit ==
    \E cam \in CameraStarts, scroll \in HeldScrolls : CityEntered(cam, scroll)

CameraTick ==
    \E c \in pending, draw \in QuietDraws : render(c, draw, MaxCameraTicks)

CameraNext == CameraTick

CameraSpec == CameraInit /\ [][CameraNext]_vars

CameraFairSpec == CameraInit /\ [][CameraNext]_vars /\ WF_vars(CameraTick)

-----------------------------------------------------------------------------
(* GameEngine under a parent that passes any scrollPercent.                *)

MaxEngineTicks == 3

PropValues == {-10, 0, 100, 150}

EngineInit == CityEntered(0, 0)

EngineTick ==
    \E c \in pending, draw \in QuietDraws : render(c, draw, MaxEngineTicks)

EngineScroll == \E v \in PropValues : SetScroll(v)

EngineNext ==
    \/ EngineTick
    \/ EngineScroll

EngineSpec == EngineInit /\ [][EngineNext]_vars

-----------------------------------------------------------------------------
(* The particles: the game back in Exploration from the interior (scroll   *)
(* 95, the camera past the spawn threshold), frames whose roll may spawn,  *)
(* and the click on the landmark in the first frames.                      *)

\* Particles alive at a time, frames of the visit, and the frame up to which
\* the landmark is clicked.
MaxParticles == 2

MaxParticleTicks == 27

MaxClickTick == 1

\* A roll that spawns (0.9 > 0.85) a gold particle of velocity (0.1, -0.5).
SpawnDraws == {Draw(900, 500, 500, 600, 700, 500)}

ParticleInit == CityEntered(EntryCameraY(ExitScroll), ExitScroll)

ParticleTick ==
    \E c \in pending, draw \in QuietDraws \cup SpawnDraws :
        /\ draw \in SpawnDraws => Len(particles) < MaxParticles
        /\ render(c, draw, MaxParticleTicks)

ParticleClick ==
    /\ cityTicks <= MaxClickTick
    /\ handleClick(Fx(160), Fx(110))

ParticleNext ==
    \/ ParticleTick
    \/ ParticleClick
    \/ RunEffects

ParticleSpec == ParticleInit /\ [][ParticleNext]_vars

-----------------------------------------------------------------------------
(* The walkers and the boats: Exploration entered from the map (camera 0)  *)
(* or from the interior (camera -209), and frames enough for a priest to   *)
(* reach either bound of the plaza and for a boat to drift off the screen. *)

MaxDriftTicks == 1500

\* Math.random() by turns low and high: the priests walk both ways at 0.072
\* a frame, the second boat starts at y = -4 and drifts at 0.296 a frame.
AltTape == [k \in 1..TapeLen |-> IF k % 2 = 1 THEN 20 ELSE 980]

DriftInit ==
    \/ CityEnteredFrom(0, 0, AltTape)
    \/ CityEnteredFrom(EntryCameraY(ExitScroll), ExitScroll, AltTape)

DriftTick ==
    \E c \in pending, draw \in QuietDraws : render(c, draw, MaxDriftTicks)

DriftNext == DriftTick

DriftSpec == DriftInit /\ [][DriftNext]_vars

-----------------------------------------------------------------------------
(* The program on a host whose canvas, or the 2d context of it, may be     *)
(* missing when a frame is called.                                         *)

\* render on a frame that finds canvasRef.current or getContext('2d') null:
\* it returns before anything is drawn and before the next frame is
\* requested.
renderBlank(c) ==
    /\ ~effectsPending
    /\ c \in pending
    /\ pending' = pending \ {c}
    /\ emitted' = << >>
    /\ UNCHANGED <<gameState, cityScroll, showDragonLore, cameraY, particles,
                   transitionAlpha, transitionTarget, entities,
                   hoveredEntityRef, scrollTargetRef, requestRef,
                   effectsPending, cursor, cityTicks>>

BlankTick == \E c \in pending : renderBlank(c)

SurfaceNext ==
    \/ Next
    \/ BlankTick

SurfaceSpec == Init /\ [][SurfaceNext]_vars

-----------------------------------------------------------------------------
(* The program up to its teardown: GameEngine is unmounted once, and the   *)
(* cleanup of the loop effect runs.  A mounted GameEngine always has a     *)
(* frame requested, an unmounted one has no handler left.                  *)

Mounted == pending # {}

\* The cleanup of useEffect(..., [gameState]) at the unmount.
Unmount ==
    /\ Mounted
    /\ ~effectsPending
    /\ pending' = cancelAnimationFrame(pending, requestRef)
    /\ emitted' = << >>
    /\ UNCHANGED <<gameState, cityScroll, showDragonLore, cameraY, particles,
                   transitionAlpha, transitionTarget, entities,
                   hoveredEntityRef, scrollTargetRef, requestRef,
                   effectsPending, cursor, cityTicks>>

\* The events of the program while GameEngine is mounted.
LoopTick == Mounted /\ Tick

LoopEffects == Mounted /\ RunEffects

LoopClick == Mounted /\ Click

LoopMouseMove == Mounted /\ MouseMove

LoopScroll == Mounted /\ Scroll

LoopExit == Mounted /\ Exit

LoopCloseLore == Mounted /\ CloseLore

LoopNext ==
    \/ LoopTick
    \/ LoopEffects
    \/ LoopClick
    \/ LoopMouseMove
    \/ LoopScroll
    \/ LoopExit
    \/ LoopCloseLore
    \/ Unmount

LoopSpec == Init /\ [][LoopNext]_vars

-----------------------------------------------------------------------------
(* The particles over a whole visit: the game from the map on, or back in  *)
(* Exploration from the interior, under the frames and the click of the    *)
(* particles.                                                              *)

VisitInit ==
    \/ Init
    \/ ParticleInit

VisitSpec == VisitInit /\ [][ParticleNext]_vars

-----------------------------------------------------------------------------
(* Visits of the interior one after the other: the game back in            *)
(* Exploration from the interior, the landmark clicked again, EXIT pressed *)
(* again, and every frame past the spawn threshold rolling a particle.     *)

\* Particles up to which the frames roll one, and frames of a stay in
\* Exploration.
MaxCycleParticles == 31

MaxCycleTicks == 1

CycleTick ==
    \E c \in pending,
       draw \in IF Len(particles) < MaxCycleParticles THEN SpawnDraws
                                                      ELSE QuietDraws :
        render(c, draw, MaxCycleTicks)

CycleClick ==
    /\ cityTicks <= MaxCycleTicks
    /\ handleClick(Fx(160), Fx(110))

CycleNext ==
    \/ CycleTick
    \/ CycleClick
    \/ RunEffects
    \/ Exit

CycleSpec == ParticleInit /\ [][CycleNext]_vars

-----------------------------------------------------------------------------
(* Properties.                                                             *)

\* The click handler run at a pointer position of the model.
ClickAt(p) == handleClick(Fx(p[1]), Fx(p[2]))

\* The steps that end with the effects of an entry into scene gs done.
EntersScene(gs) ==
    /\ gameState' = gs
    /\ ~effectsPending'
    /\ effectsPending \/ gameState # gs

\* The steps in which a transition commits.
Commits == gameState = TRANSITION /\ gameState' # TRANSITION

Count(seq, x) == Cardinality({i \in 1..Len(seq) : seq[i] = x})

Ids(ents) == {ents[i].id : i \in 1..Len(ents)}

CityPopulations == {initCity(tape) : tape \in Tapes}

\* C1: a click on the map strictly inside the hotspot (120 < x < 200,
\* 70 < y < 120) puts the game in Transitioning with target Exploration and
\* alpha 0; a click anywhere else on the map leaves the state, the target and
\* alpha as they were.
C1_MapClick ==
    [][\A p \in Points :
         (gameState = MAP /\ ClickAt(p)) =>
            IF p[1] > 120 /\ p[1] < 200 /\ p[2] > 70 /\ p[2] < 120
            THEN /\ gameState' = TRANSITION
                 /\ transitionTarget' = CITY_EXPLORATION
                 /\ transitionAlpha' = 0
            ELSE UNCHANGED <<gameState, transitionTarget, transitionAlpha>>]_vars

C1_Witness ==
    /\ gameState = TRANSITION
    /\ transitionTarget = CITY_EXPLORATION
    /\ transitionAlpha = 0
    /\ emitted = <<"playSelectSound">>
    /\ entities = << >>

\* C2: in Exploration a click starts the transition to the interior (target
\* Interior, alpha 0) exactly when it falls in the landmark's region and the
\* scroll target is above 50; any other click leaves the state, the target
\* and alpha as they were.
C2_LandmarkClick ==
    [][\A p \in Points :
         (gameState = CITY_EXPLORATION /\ ClickAt(p)) =>
            IF /\ isMouseOverZiggurat(entities, cameraY, Fx(p[1]), Fx(p[2]))
               /\ scrollTargetRef > 50
            THEN /\ gameState' = TRANSITION
                 /\ transitionTarget' = ZIGGURAT_INSIDE
                 /\ transitionAlpha' = 0
            ELSE UNCHANGED <<gameState, transitionTarget, transitionAlpha>>]_vars

C2_Witness ==
    /\ gameState = TRANSITION
    /\ transitionTarget = ZIGGURAT_INSIDE
    /\ transitionAlpha = 0
    /\ emitted = <<"playSelectSound">>
    /\ scrollTargetRef > 50

\* One step of alpha: 0.04.
AlphaUnit == (4 * Scale) \div 100

\* C3: while Transitioning every tick raises alpha by 0.04 and nothing else
\* touches alpha, the state or the target, so that the 30th tick, and no
\* earlier one, commits to the target recorded at the start, whatever pointer
\* events come between the ticks; and with frames scheduled fairly
\* Transitioning leads to the target.
C3_Step ==
    gameState = TRANSITION =>
        /\ transitionTarget' = transitionTarget
        /\ IF Tick
           THEN IF transitionAlpha = 29 * AlphaUnit
                THEN gameState' = transitionTarget
                ELSE /\ gameState' = TRANSITION
                     /\ transitionAlpha' = transitionAlpha + AlphaUnit
           ELSE UNCHANGED <<gameState, transitionAlpha>>

C3_Count ==
    gameState = TRANSITION => \E k \in 0..29 : transitionAlpha = k * AlphaUnit

C3_Transition ==
    /\ [][C3_Step]_vars
    /\ []C3_Count
    /\ \A t \in {CITY_EXPLORATION, ZIGGURAT_INSIDE} :
          (gameState = TRANSITION /\ transitionTarget = t) ~> (gameState = t)

C3_Witness ==
    /\ gameState = ZIGGURAT_INSIDE
    /\ transitionTarget = ZIGGURAT_INSIDE
    /\ effectsPending
    /\ transitionAlpha = 0
    /\ cityTicks > 0

\* C4: the tick that commits a transition leaves alpha at 0 and the state at
\* the target, and emits onExplore once if the target is Exploration and not
\* at all otherwise; no other step emits onExplore.
C4_Commit ==
    [][IF Commits
       THEN /\ transitionAlpha' = 0
            /\ gameState' = transitionTarget
            /\ Count(emitted', "onExplore") =
                  (IF transitionTarget = CITY_EXPLORATION THEN 1 ELSE 0)
       ELSE Count(emitted', "onExplore") = 0]_vars

C4_Witness ==
    /\ gameState = CITY_EXPLORATION
    /\ effectsPending
    /\ transitionAlpha = 0
    /\ Count(emitted, "onExplore") = 1

\* C5: every entry into Exploration, by a commit or by EXIT, leaves exactly a
\* freshly generated city population, and every entry into the interior
\* leaves exactly the interior population: no entity of the scene before is
\* left.
C5_Population ==
    [][/\ EntersScene(CITY_EXPLORATION) => entities' \in CityPopulations
       /\ EntersScene(ZIGGURAT_INSIDE) => entities' = initZigguratInterior]_vars

C5_Witness ==
    /\ gameState = CITY_EXPLORATION
    /\ ~effectsPending
    /\ cityTicks = 0
    /\ scrollTargetRef = ExitScroll
    /\ entities \in CityPopulations
    /\ Ids(entities) \cap Ids(initZigguratInterior) = {}

\* C6: the identities of the entities, and their number, change only in an
\* entry into a scene; ticks, pointer events and the slider add and remove
\* none.
C6_Identities ==
    [][(Ids(entities') # Ids(entities) \/ Len(entities') # Len(entities)) =>
          (EntersScene(CITY_EXPLORATION) \/ EntersScene(ZIGGURAT_INSIDE))]_vars

C6_Witness ==
    /\ gameState = CITY_EXPLORATION
    /\ cityTicks >= 2
    /\ entities \notin CityPopulations
    /\ \E pop \in CityPopulations :
          Ids(entities) = Ids(pop) /\ Len(entities) = Len(pop)

\* C7: an entry into Exploration leaves the camera at (scroll / 100) * -220,
\* the target of the ease, so that the first ease step moves it by 0 (also on
\* the return from the interior, scroll 95); an entry into the interior
\* leaves the camera at 0.
C7_EntryCamera ==
    [][/\ EntersScene(CITY_EXPLORATION) =>
             /\ 100 * cameraY' = -220 * Fx(scrollTargetRef')
             /\ Ease(cameraY', scrollTargetRef') = cameraY'
       /\ EntersScene(ZIGGURAT_INSIDE) => cameraY' = 0]_vars

C7_Witness ==
    /\ gameState = CITY_EXPLORATION
    /\ cityTicks = 1
    /\ scrollTargetRef = ExitScroll
    /\ cameraY = Fx(-209)

\* What is left of the way to the target of the ease.
Gap == TargetY(scrollTargetRef) - cameraY

\* Gap h lies on the side of the target gap g lay on, or at the target.
NotPassed(g, h) == (g > 0 => h >= 0) /\ (g < 0 => h <= 0) /\ (g = 0 => h = 0)

\* The least gap of which a tenth is a whole unit of the offset.
Resolution == 10 \div 2

\* C8 as stated: with the scroll constant every ease step strictly reduces
\* |target - offset| while the gap is not 0, and never passes the target.
C8_Original ==
    [][Gap # 0 => (Abs(Gap') < Abs(Gap) /\ NotPassed(Gap, Gap'))]_vars

\* C8, amended: with the scroll constant no ease step enlarges
\* |target - offset| or passes the target, and every ease step strictly
\* reduces the gap while a tenth of it is no less than half a unit of the
\* offset; below that the step rounds to 0 and the offset stays short of the
\* target.
C8_Ease ==
    [][/\ Abs(Gap') <= Abs(Gap)
       /\ NotPassed(Gap, Gap')
       /\ Abs(Gap) >= Resolution => Abs(Gap') < Abs(Gap)]_vars

C8_Witness ==
    /\ gameState = CITY_EXPLORATION
    /\ cityTicks > 0
    /\ Gap # 0
    /\ Abs(Gap) < Resolution

\* How near the camera comes to rest: 0.01.
Epsilon == Scale \div 100

C10_Clamped ==
    /\ scrollTargetRef \in 0..100
    /\ TargetY(scrollTargetRef) >= Fx(-220)
    /\ TargetY(scrollTargetRef) <= 0

-----------------------------------------------------------------------------
(* The particles (C11 to C13).                                             *)

\* A frame of Exploration, the only one that runs the aging pass.
AgingPass == cityTicks' = cityTicks + 1

\* The life a particle is born with, and what one aging takes from it.
FullLife == Scale

LifeStep == Times(Scale, 4, 100)

\* after holds the particles of before that are still alive, in their order
\* and none with more life than it had, and behind them at most one particle
\* born in the frame.
Descends(before, after) ==
    \E born \in {0, 1} :
        /\ born <= Len(after)
        /\ born = 1 => after[Len(after)].life >= FullLife - LifeStep
        /\ \E f \in [1..(Len(after) - born) -> 1..Len(before)] :
              /\ \A i, j \in DOMAIN f : i < j => f[i] < f[j]
              /\ \A j \in DOMAIN f :
                    /\ after[j].life <= before[f[j]].life
                    /\ after[j].vx = before[f[j]].vx
                    /\ after[j].vy = before[f[j]].vy
                    /\ after[j].color = before[f[j]].color

\* C11: no particle's life increases from one tick to the next, and at the
\* end of every tick that runs the aging pass no particle with life <= 0 is
\* left in the collection.
C11_Lives ==
    [][/\ Descends(particles, particles')
       /\ AgingPass => \A j \in 1..Len(particles') : particles'[j].life > 0]_vars

\* A particle has just been removed while another, younger, stays.
C11_Witness ==
    /\ gameState = CITY_EXPLORATION
    /\ cityTicks = 25
    /\ Len(particles) = 1
    /\ particles[1].life > 0
    /\ particles[1].life < FullLife - LifeStep

\* A frame that draws the city: one of Exploration, or one of the transition
\* to the interior.
CityFrame ==
    \/ AgingPass
    \/ /\ gameState = TRANSITION
       /\ transitionTarget = ZIGGURAT_INSIDE
       /\ transitionAlpha' # transitionAlpha

\* Every particle of parts aged once, and those whose life is used up
\* dropped.
AgedAll(parts) ==
    SelectSeq([i \in 1..Len(parts) |-> AgeParticle(parts[i])],
              LAMBDA p : p.life > 0)

\* C12 as stated: on every frame that draws the city, in Exploration or in
\* the transition, every particle has its position advanced by its velocity
\* and its life decreased by 0.04, none being skipped, the one behind a
\* removed particle included.
C12_AllAged ==
    [][CityFrame =>
         \E draw \in QuietDraws \cup SpawnDraws :
             particles' = AgedAll(drawCityParticles(particles, cameraY', draw))]_vars

\* The same of the frames of Exploration alone.
C12_NoneSkipped ==
    [][AgingPass =>
         \E draw \in QuietDraws \cup SpawnDraws :
             particles' = AgedAll(drawCityParticles(particles, cameraY', draw))]_vars

\* The last particle of the collection has just been pushed: its life is
\* whole, or has been aged once by the pass of the frame that pushed it.
Created ==
    /\ Len(particles') > 0
    /\ particles'[Len(particles')].life >= FullLife - LifeStep
    /\ \/ Len(particles) = 0
       \/ Len(particles') > Len(particles)
       \/ particles[Len(particles)].life < FullLife - LifeStep

\* C13 as stated: a particle is created only on a frame of Exploration whose
\* camera is past the threshold (offset < -100), at most one in a frame, and
\* none in Overview, Transitioning or Interior.
C13_SpawnsInExploration ==
    [][/\ Len(particles') <= Len(particles) + 1
       /\ Created => /\ gameState = CITY_EXPLORATION
                      /\ AgingPass
                      /\ cameraY' < Fx(-100)]_vars

-----------------------------------------------------------------------------
(* The walkers and the boats (C14 to C16).                                 *)

\* The entity of ents that has the identity of e.
Same(ents, e) == CHOOSE d \in {ents[k] : k \in 1..Len(ents)} : d.id = e.id

Walkers == {e \in {entities[k] : k \in 1..Len(entities)} :
                e.type = "NPC" /\ e.speed # 0}

\* The move of e takes its x from within the bounds to beyond one of them.
Crosses(e) ==
    \/ e.x <= Fx(245) /\ e.x + e.speed > Fx(245)
    \/ e.x >= Fx(75) /\ e.x + e.speed < Fx(75)

\* C14: on a frame of Exploration the speed of an NPC that has one changes
\* sign exactly when the move of that frame takes its x across a bound
\* (x > 245 or x < 75), stays as it is on every other frame, and never
\* becomes 0.
C14_Bounce ==
    [][AgingPass =>
         \A e \in Walkers :
             /\ Same(entities', e).speed = IF Crosses(e) THEN -e.speed ELSE e.speed
             /\ Same(entities', e).speed # 0]_vars

\* A priest has just crossed a bound and turned round.
C14_Witness ==
    /\ gameState = CITY_EXPLORATION
    /\ \E e \in Walkers : \/ e.x > Fx(245) /\ e.speed < 0
                          \/ e.x < Fx(75) /\ e.speed > 0

BoatsOf(ents) == {e \in {ents[k] : k \in 1..Len(ents)} : e.type = "BOAT"}

\* C15 as stated: on every frame of Exploration every boat advances its y by
\* its speed (0.1 if it has none) and is taken back by 300 once its y is more
\* than half the viewport and 200 past the camera, so that no boat comes to
\* rest.
C15_BoatsDrift ==
    [][AgingPass =>
         \A b \in BoatsOf(entities) :
             LET y1 == b.y + (IF b.speed # 0 THEN b.speed ELSE Times(Scale, 1, 10))
             IN  /\ Same(entities', b).y # b.y
                 /\ Same(entities', b).y =
                        IF y1 - Fx(Floor(cameraY')) > Fx(GAME_HEIGHT) \div 2 + Fx(200)
                        THEN y1 - Fx(300) ELSE y1]_vars

\* The simulation step of e, drawn or not.
Simulated(e, camY) ==
    LET e1 == IF e.type = "NPC" /\ e.speed # 0 THEN AnimateNPC(e) ELSE e
    IN  IF e1.type = "BOAT" THEN AnimateBoat(e1, camY) ELSE e1

\* C16 as stated: on every frame of Exploration every NPC that has a speed
\* and every boat is given its simulation step, whether or not its projected
\* y lies within the cull bounds.
C16_CullingOnlyDraws ==
    [][AgingPass =>
         \A e \in Walkers \cup BoatsOf(entities) :
             Same(entities', e) = Simulated(e, Floor(cameraY'))]_vars

-----------------------------------------------------------------------------
(* The loop (C17, C18).                                                    *)

\* C17 as stated: a frame that finds the canvas or its context missing
\* changes nothing of the game (alpha, camera, entities, particles, scene
\* state) and leaves a further frame requested.
C17_Retried ==
    [][BlankTick =>
         /\ UNCHANGED <<gameState, transitionAlpha, transitionTarget, cameraY,
                        entities, particles>>
         /\ pending' # {}]_vars

\* The effects of a change of the scene state have just run.
Restarted ==
    /\ ~effectsPending'
    /\ gameState' # gameState \/ effectsPending

\* C18: at most one frame is pending at any moment; when the effects of a
\* change of the scene state have run, the frame of the old loop is cancelled
\* and the one frame pending is that of a fresh loop, so that a frame that
\* runs has the closure of the current state; and after the teardown no
\* frame is pending.
C18_OneLoop ==
    /\ [](Cardinality(pending) <= 1)
    /\ [](~effectsPending => \A f \in pending : f.closure = gameState)
    /\ [][Restarted => pending' = {Frame(requestRef', gameState')}]_vars
    /\ [][Unmount => pending' = {}]_vars

\* The teardown in the middle of a transition: the loop had been restarted by
\* the click, its frames have run, and none is left.
C18_Witness ==
    /\ gameState = TRANSITION
    /\ transitionAlpha > 0
    /\ pending = {}

-----------------------------------------------------------------------------
(* The backdrop of a transition (C19) and the statue (C20).                *)

\* C19: a transition starts from the map with target Exploration, and the
\* map is drawn under the overlay, or from Exploration with target Interior,
\* and the city is drawn; while Transitioning the target is never Overview
\* nor Transitioning, and what is drawn is what the scene before drew.
C19_Backdrop ==
    /\ [](gameState = TRANSITION =>
            /\ transitionTarget \in {CITY_EXPLORATION, ZIGGURAT_INSIDE}
            /\ drawsCity(TRANSITION, transitionTarget)
                   <=> Backdrop(TRANSITION, transitionTarget) = "drawCity")
    /\ [][gameState # TRANSITION /\ gameState' = TRANSITION =>
            /\ \/ gameState = MAP /\ transitionTarget' = CITY_EXPLORATION
               \/ gameState = CITY_EXPLORATION /\ transitionTarget' = ZIGGURAT_INSIDE
            /\ Backdrop(TRANSITION, transitionTarget') = Backdrop(gameState, transitionTarget)
            /\ drawsCity(TRANSITION, transitionTarget') <=> gameState = CITY_EXPLORATION]_vars
    /\ [][gameState = TRANSITION /\ gameState' = TRANSITION =>
            transitionTarget' = transitionTarget]_vars

\* The city is being drawn under the overlay of the transition to the
\* interior.
C19_Witness ==
    /\ gameState = TRANSITION
    /\ transitionTarget = ZIGGURAT_INSIDE
    /\ transitionAlpha > 0
    /\ cityTicks > 0
    /\ Len(entities) > 0

\* C20: inside the ziggurat a click within the rectangle of the statue
\* (136 <= x <= 184, 100 <= y <= 148, the edges included) emits the lore
\* request once and leaves the scene state, the target, alpha, the camera and
\* the entities as they were; a click anywhere else emits nothing and changes
\* nothing.
InStatue(p) == p[1] >= 136 /\ p[1] <= 184 /\ p[2] >= 100 /\ p[2] <= 148

C20_StatueClick ==
    /\ [](gameState = ZIGGURAT_INSIDE /\ ~effectsPending =>
            \A p \in Points :
                isMouseOverStatue(entities, Fx(p[1]), Fx(p[2])) <=> InStatue(p))
    /\ [][\A p \in Points :
            (gameState = ZIGGURAT_INSIDE /\ ~effectsPending /\ ClickAt(p)) =>
               IF InStatue(p)
               THEN /\ Count(emitted', "onStatueClick") = 1
                    /\ UNCHANGED <<gameState, transitionTarget, transitionAlpha,
                                   cameraY, entities>>
               ELSE /\ emitted' = << >>
                    /\ UNCHANGED <<gameState, cityScroll, showDragonLore,
                                   cameraY, particles, transitionAlpha,
                                   transitionTarget, entities, hoveredEntityRef,
                                   scrollTargetRef, requestRef, pending,
                                   effectsPending, cursor, cityTicks>>]_vars

\* The statue has just been clicked.
C20_Witness ==
    /\ gameState = ZIGGURAT_INSIDE
    /\ showDragonLore
    /\ emitted = <<"playSelectSound", "onStatueClick">>
    /\ entities = initZigguratInterior

-----------------------------------------------------------------------------
(* The pointer (C21, C22).                                                 *)

\* The move handler run at a pointer position of the model.
MoveAt(p) == handleMouseMove(Fx(p[1]), Fx(p[2]))

\* The pointer at p is on the landmark as Exploration shows it, the slider
\* being past the middle; on the statue of the interior; on the hotspot of
\* the map.
OnLandmark(p) ==
    /\ gameState = CITY_EXPLORATION
    /\ scrollTargetRef > 50
    /\ isMouseOverZiggurat(entities, cameraY, Fx(p[1]), Fx(p[2]))

OnStatue(p) ==
    /\ gameState = ZIGGURAT_INSIDE
    /\ isMouseOverStatue(entities, Fx(p[1]), Fx(p[2]))

OnMapHotspot(p) ==
    /\ gameState = MAP
    /\ p[1] > 120 /\ p[1] < 200 /\ p[2] > 70 /\ p[2] < 120

\* C21: after a move of the pointer the hovered identity is that of the
\* landmark or of the statue if the pointer is on it, and null if the pointer
\* matches nothing; the cursor is the pointer exactly when the pointer
\* matches the hotspot of the scene.
C21_Hover ==
    [][\A p \in Points :
         MoveAt(p) =>
            /\ hoveredEntityRef' = IF OnLandmark(p) THEN "ziggurat"
                                   ELSE IF OnStatue(p) THEN "dragon-statue"
                                   ELSE "null"
            /\ cursor' = "pointer"
                  <=> OnLandmark(p) \/ OnStatue(p) \/ OnMapHotspot(p)]_vars

\* The pointer has moved onto the landmark.
C21_Witness ==
    /\ gameState = CITY_EXPLORATION
    /\ hoveredEntityRef = "ziggurat"
    /\ cursor = "pointer"
    /\ emitted = << >>

\* The entity the scene's hit test looks for is not in the population.
LandmarkAbsent ==
    gameState = CITY_EXPLORATION /\ Find(entities, "ziggurat") = 0

StatueAbsent ==
    gameState = ZIGGURAT_INSIDE /\ Find(entities, "dragon-statue") = 0

\* C22: a click or a move of the pointer that arrives while the landmark (in
\* Exploration) or the statue (in Interior) is not in the population is no
\* match: the hit test is false, no transition starts, nothing is emitted and
\* no identity is hovered.
C22_AbsentIsNoMatch ==
    /\ [](\A p \in Points :
            /\ LandmarkAbsent =>
                  ~isMouseOverZiggurat(entities, cameraY, Fx(p[1]), Fx(p[2]))
            /\ StatueAbsent => ~isMouseOverStatue(entities, Fx(p[1]), Fx(p[2])))
    /\ [][\A p \in Points :
            (LandmarkAbsent \/ StatueAbsent) /\ (ClickAt(p) \/ MoveAt(p)) =>
               /\ emitted' = << >>
               /\ hoveredEntityRef' = "null"
               /\ cursor' = "default" \/ cursor' = cursor
               /\ UNCHANGED <<gameState, transitionTarget, transitionAlpha,
                              showDragonLore, entities, pending>>]_vars

\* The state has switched to the interior, the population is still that of
\* the city, and the pointer has no identity under it.
C22_Witness ==
    /\ StatueAbsent
    /\ effectsPending
    /\ Len(entities) > 0
    /\ hoveredEntityRef = "null"
    /\ cursor = "default"
    /\ emitted = << >>

-----------------------------------------------------------------------------
(* The populations the generators produce (C23 to C25).                    *)

\* Outcomes of Math.random() in initCity: the two of the program above, the
\* alternating one, and the two ends of the range.
GeneratorTapes == Tapes \cup {AltTape, ConstTape(0), ConstTape(Scale - 1)}

GeneratedCities == {initCity(tape) : tape \in GeneratorTapes}

Generated == GeneratedCities \cup {initZigguratInterior}

WellFormed(ents) ==
    \A i \in 1..Len(ents) :
        /\ ents[i].width >= 0
        /\ ents[i].height >= 0
        /\ ents[i].type \in EntityType

\* C23: every entity of every population the city generator or the interior
\* generator produces, and of the population as the ticks leave it, has
\* width >= 0, height >= 0 and one of the eight kinds.
C23_WellFormed ==
    /\ \A pop \in Generated : WellFormed(pop)
    /\ WellFormed(entities)

\* A city the frames have moved.
C23_Witness ==
    /\ gameState = CITY_EXPLORATION
    /\ cityTicks > 0
    /\ entities \notin CityPopulations
    /\ \E i \in 1..Len(entities) : entities[i].type = "BOAT"

\* No two entities of ents share an identity.
UniqueIds(ents) == Cardinality(Ids(ents)) = Len(ents)

\* The entities of ents that have the identity name.
Named(ents, name) == {i \in 1..Len(ents) : ents[i].id = Id(name, 0, 0)}

\* C24: no two entities of a population share an identity, whatever the
\* generator drew; a city has exactly one entity 'ziggurat' and an interior
\* exactly one 'dragon-statue'.
C24_UniqueIds ==
    /\ \A pop \in Generated : UniqueIds(pop)
    /\ \A pop \in GeneratedCities : Cardinality(Named(pop, "ziggurat")) = 1
    /\ Cardinality(Named(initZigguratInterior, "dragon-statue")) = 1
    /\ UniqueIds(entities)
    /\ gameState = CITY_EXPLORATION /\ ~effectsPending
          => Cardinality(Named(entities, "ziggurat")) = 1
    /\ gameState = ZIGGURAT_INSIDE /\ ~effectsPending
          => Cardinality(Named(entities, "dragon-statue")) = 1

\* The interior after a visit of the city: its population is the interior's
\* alone.
C24_Witness ==
    /\ gameState = ZIGGURAT_INSIDE
    /\ ~effectsPending
    /\ cityTicks > 0
    /\ Len(entities) = Len(initZigguratInterior)
    /\ Named(entities, "ziggurat") = {}

\* The towers, the landmark and the wall segments of ents.
StructuralOf(ents) ==
    {ents[i] : i \in {k \in 1..Len(ents) :
                         \/ ents[k].type = "ZIGGURAT"
                         \/ ents[k].variant \in {"TOWER", "WALL_V", "WALL_H"}}}

Layouts == {StructuralOf(pop) : pop \in GeneratedCities}

\* The segments of the west wall and of the south wall in layout, by the
\* coordinate that names them.
WestWall(layout) == {e.id.a : e \in {d \in layout : d.id.name = "wall-west"}}

SouthWall(layout) == {e.id.a : e \in {d \in layout : d.id.name = "wall-south"}}

\* C25: whatever the generator draws, a city has the same structural entities
\* (identity, kind, variant, position, size): the four corner towers, the
\* landmark, and the walls, the west wall open at the river gate and the
\* south wall open at the central gate; the city of the running game has them
\* too, before and after its frames.
C25_SameLayout ==
    /\ Cardinality(Layouts) = 1
    /\ \A layout \in Layouts :
          /\ Cardinality({e \in layout : e.variant = "TOWER"}) = 4
          /\ {e \in layout : e.type = "ZIGGURAT"} = {Ziggurat}
          /\ WestWall(layout) = {30 - 20 * n : n \in 0..11} \ {-70, -90}
          /\ SouthWall(layout) = {80 + 20 * n : n \in 0..8} \ {140, 160, 180}
    /\ gameState = CITY_EXPLORATION /\ ~effectsPending
          => StructuralOf(entities) \in Layouts

\* Two cities that differ, of the same layout.
C25_Witness ==
    /\ gameState = CITY_EXPLORATION
    /\ ~effectsPending
    /\ cityTicks = 0
    /\ entities = initCity(RampTape)
    /\ entities # initCity(ConstTape(Scale \div 2))
    /\ StructuralOf(entities) = StructuralOf(initCity(ConstTape(Scale \div 2)))

-----------------------------------------------------------------------------
(* The draw pass of the city (C26, C27).                                   *)

IdSeq(ents) == [i \in 1..Len(ents) |-> ents[i].id]

\* C26: a frame of Exploration leaves the entities in the order it visited
\* them, which is non-decreasing in the y they had when the pass started,
\* and the entities after the pass are those before it, none lost and none
\* twice.
C26_DepthOrder ==
    [][AgingPass =>
         /\ Len(entities') = Len(entities)
         /\ Ids(entities') = Ids(entities)
         /\ UniqueIds(entities')
         /\ \A i \in 1..(Len(entities') - 1) :
               Same(entities, entities'[i]).y <= Same(entities, entities'[i + 1]).y]_vars

\* The order of the entities is no longer the one the first sort gave: a boat
\* has drifted past another entity and the sort has moved it.
C26_Witness ==
    /\ gameState = CITY_EXPLORATION
    /\ cityTicks > 1
    /\ Ids(entities) = Ids(initCity(AltTape))
    /\ IdSeq(entities) # IdSeq(SortByY(initCity(AltTape)))

\* C27: while the state stays Overview or Interior, the effects of its entry
\* done, no step changes the camera, an entity or the particles, the frames
\* included; the particles change on frames that draw the city alone, and so
\* do the camera and the entities but for the entry into a scene.
C27_OnlyCityFrames ==
    /\ [][/\ gameState \in {MAP, ZIGGURAT_INSIDE}
           /\ gameState' = gameState
           /\ ~effectsPending
           => UNCHANGED <<cameraY, entities, particles>>]_vars
    /\ [][particles' # particles => CityFrame]_vars
    /\ [][cameraY' # cameraY \/ entities' # entities =>
            \/ CityFrame
            \/ EntersScene(CITY_EXPLORATION)
            \/ EntersScene(ZIGGURAT_INSIDE)]_vars

\* The interior, with the particles the frames of the transition left.
C27_Witness ==
    /\ gameState = ZIGGURAT_INSIDE
    /\ ~effectsPending
    /\ entities = initZigguratInterior
    /\ Len(particles) > 0
    /\ cameraY = 0

-----------------------------------------------------------------------------
(* The scene state machine (C28 to C30).                                   *)

\* C28: the scene state changes only from Overview to Transitioning with
\* target Exploration, from Exploration to Transitioning with target
\* Interior, from Transitioning to its target, and from Interior to
\* Exploration; Overview, once left, is never the state again.
C28_SceneChanges ==
    /\ [][gameState' # gameState =>
            \/ /\ gameState = MAP
               /\ gameState' = TRANSITION
               /\ transitionTarget' = CITY_EXPLORATION
            \/ /\ gameState = CITY_EXPLORATION
               /\ gameState' = TRANSITION
               /\ transitionTarget' = ZIGGURAT_INSIDE
            \/ /\ gameState = TRANSITION
               /\ gameState' = transitionTarget
               /\ transitionTarget' = transitionTarget
            \/ /\ gameState = ZIGGURAT_INSIDE
               /\ gameState' = CITY_EXPLORATION]_vars
    /\ [](gameState # MAP => [](gameState # MAP))

\* The exit control has just taken the game from the interior back to
\* Exploration.
C28_Witness ==
    /\ gameState = CITY_EXPLORATION
    /\ transitionTarget = ZIGGURAT_INSIDE
    /\ emitted = <<"playSelectSound">>
    /\ cityScroll = ExitScroll
    /\ cityTicks = 0

\* The completion threshold of the fade: 1.2.
Threshold == Times(Scale, 12, 10)

C30_PointerIgnored ==
    [][\A p \in Points :
         gameState = TRANSITION /\ (ClickAt(p) \/ MoveAt(p)) =>
            /\ emitted' = << >>
            /\ cursor' = cursor \/ cursor' = "default"
            /\ UNCHANGED <<gameState, cityScroll, showDragonLore, cameraY,
                           particles, transitionAlpha, transitionTarget,
                           entities, hoveredEntityRef, scrollTargetRef,
                           requestRef, pending, effectsPending, cityTicks>>]_vars

\* A pointer event has come between the click that started the transition
\* and its first frame.
C30_Witness ==
    /\ gameState = TRANSITION
    /\ transitionAlpha = 0
    /\ emitted = << >>

-----------------------------------------------------------------------------
(* Hover and click (C31).                                                  *)

\* A move of the pointer at p makes the cursor the pointer.
HoverSignals(p) == ENABLED (MoveAt(p) /\ cursor' = "pointer")

\* A click at p acts: it starts a transition, or asks for the lore.
ClickActs(p) ==
    ENABLED (/\ ClickAt(p)
             /\ \/ gameState # TRANSITION /\ gameState' = TRANSITION
                \/ Count(emitted', "onStatueClick") = 1)

\* C31: in every state, whatever the scene, the camera, the scroll target and
\* the population, a move of the pointer at a position makes the cursor the
\* pointer if and only if a click at that position would act.
C31_HoverMatchesClick ==
    \A p \in Points : HoverSignals(p) <=> ClickActs(p)

\* The landmark was hovered, then clicked.
C31_Witness ==
    /\ gameState = TRANSITION
    /\ transitionTarget = ZIGGURAT_INSIDE
    /\ transitionAlpha = 0
    /\ cursor = "pointer"
    /\ emitted = <<"playSelectSound">>

-----------------------------------------------------------------------------
(* The number of particles (C32).                                          *)

\* C32 as stated: whatever the frames, the clicks and the exits, the
\* collection never holds more than 30 particles; they do not add up from
\* one visit of the interior to the next.
C32_Bounded == Len(particles) <= 30

-----------------------------------------------------------------------------
(* The walkers at the bounds (C33).                                        *)

\* e is beyond a bound: the frame before took it there and turned it round.
Beyond(e) == e.x > Fx(245) \/ e.x < Fx(75)

\* C33: an NPC that has a speed and starts within the bounds is never more
\* than one step beyond them, 75 - |speed| <= x <= 245 + |speed| after every
\* frame, and the frame after one that turned it round does not turn it
\* round again.
C33_WithinOneStep ==
    /\ [](\A e \in Walkers :
             /\ e.x >= Fx(75) - Abs(e.speed)
             /\ e.x <= Fx(245) + Abs(e.speed))
    /\ [][AgingPass =>
            \A e \in Walkers :
                Beyond(e) => Same(entities', e).speed = e.speed]_vars

\* A priest turned round beyond the east bound is back within it, heading
\* west.
C33_Witness ==
    /\ gameState = CITY_EXPLORATION
    /\ \E e \in Walkers : /\ e.speed < 0
                          /\ e.x <= Fx(245)
                          /\ e.x - e.speed > Fx(245)

====
